---- MODULE Spec2Model ----
(***************************************************************************)
(* Verification model of the Pod manifest validator in src/main.go.        *)
(*                                                                         *)
(* src/main.go holds two revisions of the program one after the other      *)
(* (lines 1-461 and lines 463-906).  The model follows the second, later    *)
(* revision (reporter with addRequiredNoLine / addRequiredAt, output on     *)
(* stdout).                                                                 *)
(*                                                                         *)
(* Text is modelled character by character: a Go string value is a         *)
(* sequence of one-character strings, so that trimming, regular            *)
(* expressions and integer parsing are computed as the code computes them. *)
(* A diagnostic message is a sequence of string pieces: the literal parts  *)
(* of the format string as whole pieces, an embedded document value as its *)
(* characters.                                                             *)
(***************************************************************************)
EXTENDS Integers, Sequences, FiniteSets, TLC

(***************************************************************************)
(* String literals of the program                                          *)
(***************************************************************************)
kApiVersion == <<"a", "p", "i", "V", "e", "r", "s", "i", "o", "n">>
kKind == <<"k", "i", "n", "d">>
kMetadata == <<"m", "e", "t", "a", "d", "a", "t", "a">>
kSpec == <<"s", "p", "e", "c">>
kName == <<"n", "a", "m", "e">>
kNamespace == <<"n", "a", "m", "e", "s", "p", "a", "c", "e">>
kLabels == <<"l", "a", "b", "e", "l", "s">>
kOs == <<"o", "s">>
kContainers == <<"c", "o", "n", "t", "a", "i", "n", "e", "r", "s">>
kImage == <<"i", "m", "a", "g", "e">>
kPorts == <<"p", "o", "r", "t", "s">>
kReadinessProbe == <<"r", "e", "a", "d", "i", "n", "e", "s", "s", "P", "r", "o", "b", "e">>
kLivenessProbe == <<"l", "i", "v", "e", "n", "e", "s", "s", "P", "r", "o", "b", "e">>
kResources == <<"r", "e", "s", "o", "u", "r", "c", "e", "s">>
kContainerPort == <<"c", "o", "n", "t", "a", "i", "n", "e", "r", "P", "o", "r", "t">>
kProtocol == <<"p", "r", "o", "t", "o", "c", "o", "l">>
kHttpGet == <<"h", "t", "t", "p", "G", "e", "t">>
kPath == <<"p", "a", "t", "h">>
kPort == <<"p", "o", "r", "t">>
kLimits == <<"l", "i", "m", "i", "t", "s">>
kRequests == <<"r", "e", "q", "u", "e", "s", "t", "s">>
kCpu == <<"c", "p", "u">>
kMemory == <<"m", "e", "m", "o", "r", "y">>
sV1 == <<"v", "1">>
sPod == <<"P", "o", "d">>
sLinux == <<"l", "i", "n", "u", "x">>
sWindows == <<"w", "i", "n", "d", "o", "w", "s">>
sTCP == <<"T", "C", "P">>
sUDP == <<"U", "D", "P">>
sDuplicate == <<"d", "u", "p", "l", "i", "c", "a", "t", "e">>
imagePrefix == <<"r", "e", "g", "i", "s", "t", "r", "y", ".", "b", "i", "g", "b", "r", "o", "t", "h", "e", "r", ".", "i", "o", "/">>

validOS == {sLinux, sWindows}
validProtocol == {sTCP, sUDP}

(***************************************************************************)
(* Character classes and the standard-library text functions the program   *)
(* calls                                                                   *)
(***************************************************************************)
Digit == {"0", "1", "2", "3", "4", "5", "6", "7", "8", "9"}
Lower == {"a", "b", "c", "d", "e", "f", "g", "h", "i", "j", "k", "l", "m",
          "n", "o", "p", "q", "r", "s", "t", "u", "v", "w", "x", "y", "z"}
\* unicode.IsSpace on the characters a manifest can hold
Space == {" ", "\t", "\n", "\r"}

DigitVal == ("0" :> 0) @@ ("1" :> 1) @@ ("2" :> 2) @@ ("3" :> 3) @@ ("4" :> 4) @@
            ("5" :> 5) @@ ("6" :> 6) @@ ("7" :> 7) @@ ("8" :> 8) @@ ("9" :> 9)

DigitChar == <<"0", "1", "2", "3", "4", "5", "6", "7", "8", "9">>


RECURSIVE TrimLeft(_)
TrimLeft(s) == IF s # <<>> /\ Head(s) \in Space THEN TrimLeft(Tail(s)) ELSE s

RECURSIVE TrimRight(_)
TrimRight(s) ==
    IF s # <<>> /\ s[Len(s)] \in Space THEN TrimRight(SubSeq(s, 1, Len(s) - 1)) ELSE s

\* strings.TrimSpace
TrimSpace(s) == TrimRight(TrimLeft(s))

\* strings.HasPrefix
HasPrefix(s, p) == Len(s) >= Len(p) /\ SubSeq(s, 1, Len(p)) = p

RECURSIVE DigitsValue(_, _)
DigitsValue(s, acc) ==
    IF s = <<>> THEN acc ELSE DigitsValue(Tail(s), acc * 10 + DigitVal[Head(s)])

\* strconv.Atoi: an optional sign, then one or more decimal digits.
\* err = TRUE stands for the non-nil error.
Atoi(s) ==
    LET signed == s # <<>> /\ Head(s) \in {"-", "+"}
        body == IF signed THEN Tail(s) ELSE s
    IN  IF body = <<>> \/ \E i \in 1..Len(body) : body[i] \notin Digit
        THEN [val |-> 0, err |-> TRUE]
        ELSE [val |-> IF s[1] = "-" THEN 0 - DigitsValue(body, 0) ELSE DigitsValue(body, 0),
              err |-> FALSE]

RECURSIVE ItoaPos(_)
ItoaPos(n) == IF n < 10 THEN <<DigitChar[n + 1]>>
              ELSE Append(ItoaPos(n \div 10), DigitChar[(n % 10) + 1])

\* the %d verb of fmt.Printf
Itoa(n) == IF n < 0 THEN <<"-">> \o ItoaPos(0 - n) ELSE ItoaPos(n)

\* reSnake = ^[a-z][a-z0-9_]*$
reSnake(s) ==
    /\ s # <<>>
    /\ s[1] \in Lower
    /\ \A i \in 2..Len(s) : s[i] \in Lower \cup Digit \cup {"_"}

\* reMem = ^\d+(Gi|Mi|Ki)$
reMem(s) ==
    /\ Len(s) >= 3
    /\ SubSeq(s, Len(s) - 1, Len(s)) \in {<<"G", "i">>, <<"M", "i">>, <<"K", "i">>}
    /\ \A i \in 1..(Len(s) - 2) : s[i] \in Digit

\* mutant of reImage: path and tag restricted to letters and digits
reImage_alnum(s) ==
    /\ HasPrefix(s, imagePrefix)
    /\ \A i \in (Len(imagePrefix) + 1)..Len(s) : s[i] \in Lower \cup Digit \cup {":"}
    /\ \E i \in (Len(imagePrefix) + 2)..(Len(s) - 1) : s[i] = ":"

\* reImage = ^registry\.bigbrother\.io/.+:.+$   ("." does not match a newline)
reImage(s) ==
    /\ HasPrefix(s, imagePrefix)
    /\ \A i \in (Len(imagePrefix) + 1)..Len(s) : s[i] # "\n"
    /\ \E i \in (Len(imagePrefix) + 2)..(Len(s) - 1) : s[i] = ":"

(***************************************************************************)
(* yaml.Node: Kind, Tag, Value, Line, Content.  A Mapping's Content is the  *)
(* flat list key, value, key, value, ...                                    *)
(***************************************************************************)
ScalarNode == "Scalar"
MappingNode == "Mapping"
SequenceNode == "Sequence"

Scalar(tag, value, line) ==
    [kind |-> ScalarNode, tag |-> tag, value |-> value, line |-> line, content |-> <<>>]
MapN(line, content) ==
    [kind |-> MappingNode, tag |-> "!!map", value |-> <<>>, line |-> line, content |-> content]
SeqN(line, content) ==
    [kind |-> SequenceNode, tag |-> "!!seq", value |-> <<>>, line |-> line, content |-> content]
StrN(value, line) == Scalar("!!str", value, line)
IntN(value, line) == Scalar("!!int", value, line)

\* stands for the nil *yaml.Node that getField returns with ok = false
NilNode == Scalar("", <<>>, 0)

IsStr(n) == n.kind = ScalarNode /\ n.tag = "!!str"

RECURSIVE getFieldFrom(_, _, _)
getFieldFrom(obj, key, i) ==
    IF i + 1 > Len(obj.content) THEN [node |-> NilNode, ok |-> FALSE]
    ELSE IF obj.content[i].kind = ScalarNode /\ obj.content[i].value = key
         THEN [node |-> obj.content[i + 1], ok |-> TRUE]
         ELSE getFieldFrom(obj, key, i + 2)

getField(obj, key) ==
    IF obj.kind # MappingNode THEN [node |-> NilNode, ok |-> FALSE]
    ELSE getFieldFrom(obj, key, 1)

\* mutant of asInt: the text of a string scalar is parsed untrimmed
asInt_noTrim(n) ==
    IF n.kind = ScalarNode /\ n.tag \in {"!!int", "!!str"}
    THEN [val |-> Atoi(n.value).val, line |-> n.line, err |-> Atoi(n.value).err]
    ELSE [val |-> 0, line |-> n.line, err |-> TRUE]

asInt(n) ==
    IF n.kind = ScalarNode
    THEN IF n.tag = "!!int"
         THEN [val |-> Atoi(n.value).val, line |-> n.line, err |-> Atoi(n.value).err]
         ELSE IF n.tag = "!!str"
         THEN IF Atoi(TrimSpace(n.value)).err
              THEN [val |-> 0, line |-> n.line, err |-> TRUE]
              ELSE [val |-> Atoi(TrimSpace(n.value)).val, line |-> n.line, err |-> FALSE]
         ELSE [val |-> 0, line |-> n.line, err |-> TRUE]
    ELSE [val |-> 0, line |-> n.line, err |-> TRUE]

(***************************************************************************)
(* reporter                                                                *)
(***************************************************************************)
NewReporter(file) == [file |-> file, errs |-> <<>>]

add(r, line, msg) ==
    [r EXCEPT !.errs = Append(@, [file |-> r.file, line |-> line, msg |-> msg])]

\* mutant of addRequiredNoLine: a diagnostic equal to an earlier one is dropped
addRequiredNoLine_dedup(r, field) ==
    IF \E j \in 1..Len(r.errs) :
          r.errs[j] = [file |-> r.file, line |-> 0, msg |-> field \o <<" is required">>]
    THEN r
    ELSE [r EXCEPT !.errs = Append(@, [file |-> r.file, line |-> 0,
                                       msg |-> field \o <<" is required">>])]

addRequiredNoLine(r, field) ==
    [r EXCEPT !.errs = Append(@, [file |-> r.file, line |-> 0,
                                  msg |-> field \o <<" is required">>])]

\* mutant of addRequiredAt: the line is dropped, as addRequiredNoLine does
addRequiredAt_noLine(r, line, field) ==
    [r EXCEPT !.errs = Append(@, [file |-> r.file, line |-> 0,
                                  msg |-> field \o <<" is required">>])]

addRequiredAt(r, line, field) ==
    [r EXCEPT !.errs = Append(@, [file |-> r.file, line |-> line,
                                  msg |-> field \o <<" is required">>])]

\* mutant of hasErrors: a single diagnostic does not count
hasErrors_moreThanOne(r) == Len(r.errs) > 1

hasErrors(r) == Len(r.errs) > 0

flushLine(e) ==
    IF e.line > 0 THEN <<e.file, ":">> \o Itoa(e.line) \o <<" ">> \o e.msg \o <<"\n">>
    ELSE <<e.file, ": ">> \o e.msg \o <<"\n">>

RECURSIVE flushFrom(_, _, _)
flushFrom(r, i, out) ==
    IF i > Len(r.errs) THEN out ELSE flushFrom(r, i + 1, Append(out, flushLine(r.errs[i])))

flushToStdout(r, out) == flushFrom(r, 1, out)

(***************************************************************************)
(* Schema validators.  Each takes the reporter and returns the reporter    *)
(* after its add / addRequired calls, in call order.                       *)
(***************************************************************************)

\* mutant of validateResKVPair: a cpu of 0 is out of range
validateResKVPair_cpuPositive(k, v, r, prefix) ==
    IF ~IsStr(k) THEN add(r, k.line, <<prefix, " key must be string">>)
    ELSE IF k.value = kCpu
         THEN IF asInt(v).err THEN add(r, asInt(v).line, <<"cpu must be int">>)
              ELSE IF asInt(v).val <= 0 THEN add(r, asInt(v).line, <<"cpu value out of range">>)
              ELSE r
    ELSE IF k.value = kMemory
         THEN IF ~IsStr(v) THEN add(r, v.line, <<"memory must be string">>)
              ELSE IF ~reMem(v.value)
                   THEN add(r, v.line, <<prefix, ".memory has invalid format '">> \o v.value \o <<"'">>)
              ELSE r
    ELSE r

\* ---- ResourceKV ----
validateResKVPair(k, v, r, prefix) ==
    IF ~IsStr(k) THEN add(r, k.line, <<prefix, " key must be string">>)
    ELSE IF k.value = kCpu
         THEN IF asInt(v).err THEN add(r, asInt(v).line, <<"cpu must be int">>)
              ELSE IF asInt(v).val < 0 THEN add(r, asInt(v).line, <<"cpu value out of range">>)
              ELSE r
    ELSE IF k.value = kMemory
         THEN IF ~IsStr(v) THEN add(r, v.line, <<"memory must be string">>)
              ELSE IF ~reMem(v.value)
                   THEN add(r, v.line, <<prefix, ".memory has invalid format '">> \o v.value \o <<"'">>)
              ELSE r
    ELSE r

RECURSIVE validateResKVLoop(_, _, _, _)
validateResKVLoop(n, i, r, prefix) ==
    IF i + 1 > Len(n.content) THEN r
    ELSE validateResKVLoop(n, i + 2,
                           validateResKVPair(n.content[i], n.content[i + 1], r, prefix), prefix)

validateResKV(n, r, prefix) ==
    IF n.kind # MappingNode THEN add(r, n.line, <<prefix, " must be object">>)
    ELSE validateResKVLoop(n, 1, r, prefix)

\* ---- ResourceRequirements ----
validateResources(n, r) ==
    IF n.kind # MappingNode THEN add(r, n.line, <<"resources must be object">>)
    ELSE LET lim == getField(n, kLimits)
             req == getField(n, kRequests)
             r1 == IF lim.ok THEN validateResKV(lim.node, r, "resources.limits") ELSE r
         IN  IF req.ok THEN validateResKV(req.node, r1, "resources.requests") ELSE r1

\* mutant of validateProbe: the return after "httpGet must be object" is missing
validateProbe_noReturn(n, r, prefix) ==
    IF n.kind # MappingNode THEN add(r, n.line, <<prefix, " must be object">>)
    ELSE LET hg == getField(n, kHttpGet) IN
         IF ~hg.ok THEN addRequiredNoLine(r, <<prefix, ".httpGet">>)
         ELSE LET r0 == IF hg.node.kind # MappingNode
                        THEN add(r, hg.node.line, <<"httpGet must be object">>) ELSE r
                  path == getField(hg.node, kPath)
                  port == getField(hg.node, kPort)
                  r1 == IF ~path.ok THEN addRequiredNoLine(r0, <<prefix, ".httpGet.path">>)
                        ELSE IF ~IsStr(path.node)
                             THEN add(r0, path.node.line, <<"path must be string">>)
                        ELSE IF ~HasPrefix(path.node.value, <<"/">>)
                             THEN add(r0, path.node.line,
                                      <<"path has invalid format '">> \o path.node.value \o <<"'">>)
                        ELSE r0
              IN  IF ~port.ok THEN addRequiredNoLine(r1, <<prefix, ".httpGet.port">>)
                  ELSE IF asInt(port.node).err
                       THEN add(r1, asInt(port.node).line, <<"port must be int">>)
                  ELSE IF asInt(port.node).val <= 0 \/ asInt(port.node).val >= 65536
                       THEN add(r1, asInt(port.node).line, <<"port value out of range">>)
                  ELSE r1

\* ---- Probe ----
validateProbe(n, r, prefix) ==
    IF n.kind # MappingNode THEN add(r, n.line, <<prefix, " must be object">>)
    ELSE LET hg == getField(n, kHttpGet) IN
         IF ~hg.ok THEN addRequiredNoLine(r, <<prefix, ".httpGet">>)
         ELSE IF hg.node.kind # MappingNode THEN add(r, hg.node.line, <<"httpGet must be object">>)
         ELSE LET path == getField(hg.node, kPath)
                  port == getField(hg.node, kPort)
                  r1 == IF ~path.ok THEN addRequiredNoLine(r, <<prefix, ".httpGet.path">>)
                        ELSE IF ~IsStr(path.node)
                             THEN add(r, path.node.line, <<"path must be string">>)
                        ELSE IF ~HasPrefix(path.node.value, <<"/">>)
                             THEN add(r, path.node.line,
                                      <<"path has invalid format '">> \o path.node.value \o <<"'">>)
                        ELSE r
              IN  IF ~port.ok THEN addRequiredNoLine(r1, <<prefix, ".httpGet.port">>)
                  ELSE IF asInt(port.node).err
                       THEN add(r1, asInt(port.node).line, <<"port must be int">>)
                  ELSE IF asInt(port.node).val <= 0 \/ asInt(port.node).val >= 65536
                       THEN add(r1, asInt(port.node).line, <<"port value out of range">>)
                  ELSE r1

\* ---- ContainerPort ----
\* mutant of validateContainerPort: the upper limit is off by one
validateContainerPort_offByOne(n, r) ==
    LET cp == getField(n, kContainerPort)
        pr == getField(n, kProtocol)
        r1 == IF ~cp.ok THEN addRequiredNoLine(r, <<"ports.containerPort">>)
              ELSE IF asInt(cp.node).err
                   THEN add(r, asInt(cp.node).line, <<"containerPort must be int">>)
              ELSE IF asInt(cp.node).val <= 0 \/ asInt(cp.node).val >= 65535
                   THEN add(r, asInt(cp.node).line, <<"containerPort value out of range">>)
              ELSE r
    IN  IF ~pr.ok THEN r1
        ELSE IF ~IsStr(pr.node) THEN add(r1, pr.node.line, <<"protocol must be string">>)
        ELSE IF pr.node.value \notin validProtocol
             THEN add(r1, pr.node.line,
                      <<"protocol has unsupported value '">> \o pr.node.value \o <<"'">>)
        ELSE r1

validateContainerPort(n, r) ==
    LET cp == getField(n, kContainerPort)
        pr == getField(n, kProtocol)
        r1 == IF ~cp.ok THEN addRequiredNoLine(r, <<"ports.containerPort">>)
              ELSE IF asInt(cp.node).err
                   THEN add(r, asInt(cp.node).line, <<"containerPort must be int">>)
              ELSE IF asInt(cp.node).val <= 0 \/ asInt(cp.node).val >= 65536
                   THEN add(r, asInt(cp.node).line, <<"containerPort value out of range">>)
              ELSE r
    IN  IF ~pr.ok THEN r1
        ELSE IF ~IsStr(pr.node) THEN add(r1, pr.node.line, <<"protocol must be string">>)
        ELSE IF pr.node.value \notin validProtocol
             THEN add(r1, pr.node.line,
                      <<"protocol has unsupported value '">> \o pr.node.value \o <<"'">>)
        ELSE r1

RECURSIVE validatePortsLoop(_, _, _)
validatePortsLoop(ports, i, r) ==
    IF i > Len(ports.content) THEN r
    ELSE validatePortsLoop(ports, i + 1,
            IF ports.content[i].kind # MappingNode
            THEN add(r, ports.content[i].line, <<"ports item must be object">>)
            ELSE validateContainerPort(ports.content[i], r))

\* mutant of validateContainerName: the name is registered before the lookup
validateContainerName_registerFirst(item, r, seen) ==
    LET nameNode == getField(item, kName) IN
    IF ~nameNode.ok
    THEN [rep |-> addRequiredNoLine(r, <<"containers.name">>), seen |-> seen]
    ELSE IF ~IsStr(nameNode.node)
         THEN [rep |-> add(r, nameNode.node.line, <<"name must be string">>), seen |-> seen]
    ELSE IF TrimSpace(nameNode.node.value) = <<>>
         THEN [rep |-> addRequiredAt(r, nameNode.node.line, <<"name">>), seen |-> seen]
    ELSE IF ~reSnake(nameNode.node.value)
         THEN [rep |-> add(r, nameNode.node.line,
                           <<"name has invalid format '">> \o nameNode.node.value \o <<"'">>),
               seen |-> seen]
    ELSE [rep |-> add(r, nameNode.node.line,
                      <<"name has invalid format '">> \o sDuplicate \o <<"'">>),
          seen |-> seen \cup {nameNode.node.value}]

\* mutant of validateContainerName: an empty name is a format error, as in the
\* first revision of the program
validateContainerName_emptyIsFormat(item, r, seen) ==
    LET nameNode == getField(item, kName) IN
    IF ~nameNode.ok
    THEN [rep |-> addRequiredNoLine(r, <<"containers.name">>), seen |-> seen]
    ELSE IF ~IsStr(nameNode.node)
         THEN [rep |-> add(r, nameNode.node.line, <<"name must be string">>), seen |-> seen]
    ELSE IF TrimSpace(nameNode.node.value) = <<>> \/ ~reSnake(nameNode.node.value)
         THEN [rep |-> add(r, nameNode.node.line,
                           <<"name has invalid format '">> \o nameNode.node.value \o <<"'">>),
               seen |-> seen]
    ELSE [rep |-> IF nameNode.node.value \in seen
                  THEN add(r, nameNode.node.line,
                           <<"name has invalid format '">> \o sDuplicate \o <<"'">>)
                  ELSE r,
          seen |-> seen \cup {nameNode.node.value}]

\* ---- Container ----
\* the name check of validateContainer; returns the reporter and the seen set
validateContainerName(item, r, seen) ==
    LET nameNode == getField(item, kName) IN
    IF ~nameNode.ok
    THEN [rep |-> addRequiredNoLine(r, <<"containers.name">>), seen |-> seen]
    ELSE IF ~IsStr(nameNode.node)
         THEN [rep |-> add(r, nameNode.node.line, <<"name must be string">>), seen |-> seen]
    ELSE IF TrimSpace(nameNode.node.value) = <<>>
         THEN [rep |-> addRequiredAt(r, nameNode.node.line, <<"name">>), seen |-> seen]
    ELSE IF ~reSnake(nameNode.node.value)
         THEN [rep |-> add(r, nameNode.node.line,
                           <<"name has invalid format '">> \o nameNode.node.value \o <<"'">>),
               seen |-> seen]
    ELSE [rep |-> IF nameNode.node.value \in seen
                  THEN add(r, nameNode.node.line,
                           <<"name has invalid format '">> \o sDuplicate \o <<"'">>)
                  ELSE r,
          seen |-> seen \cup {nameNode.node.value}]

validateContainer(item, r, seen) ==
    LET nm == validateContainerName(item, r, seen)
        img == getField(item, kImage)
        r1 == IF ~img.ok THEN addRequiredNoLine(nm.rep, <<"containers.image">>)
              ELSE IF ~IsStr(img.node) THEN add(nm.rep, img.node.line, <<"image must be string">>)
              ELSE IF ~reImage(img.node.value)
                   THEN add(nm.rep, img.node.line,
                            <<"image has invalid format '">> \o img.node.value \o <<"'">>)
              ELSE nm.rep
        ports == getField(item, kPorts)
        r2 == IF ~ports.ok THEN r1
              ELSE IF ports.node.kind # SequenceNode
                   THEN add(r1, ports.node.line, <<"ports must be array">>)
              ELSE validatePortsLoop(ports.node, 1, r1)
        rp == getField(item, kReadinessProbe)
        r3 == IF rp.ok THEN validateProbe(rp.node, r2, "readinessProbe") ELSE r2
        lp == getField(item, kLivenessProbe)
        r4 == IF lp.ok THEN validateProbe(lp.node, r3, "livenessProbe") ELSE r3
        res == getField(item, kResources)
    IN  [rep |-> IF ~res.ok THEN addRequiredNoLine(r4, <<"containers.resources">>)
                 ELSE validateResources(res.node, r4),
         seen |-> nm.seen]

\* ---- PodSpec ----
validateOs(n, r) ==
    LET osNode == getField(n, kOs) IN
    IF ~osNode.ok THEN r
    ELSE IF osNode.node.kind = ScalarNode
         THEN IF osNode.node.tag # "!!str" THEN add(r, osNode.node.line, <<"os must be string">>)
              ELSE IF osNode.node.value \notin validOS
                   THEN add(r, osNode.node.line,
                            <<"os has unsupported value '">> \o osNode.node.value \o <<"'">>)
              ELSE r
    ELSE IF osNode.node.kind = MappingNode
         THEN LET nameNode == getField(osNode.node, kName) IN
              IF ~nameNode.ok THEN addRequiredNoLine(r, <<"spec.os.name">>)
              ELSE IF ~IsStr(nameNode.node)
                   THEN add(r, nameNode.node.line, <<"os.name must be string">>)
              ELSE IF nameNode.node.value \notin validOS
                   THEN add(r, nameNode.node.line,
                            <<"os has unsupported value '">> \o nameNode.node.value \o <<"'">>)
              ELSE r
    ELSE add(r, osNode.node.line, <<"os must be string or object">>)

\* the loop over containers.Content; st = [rep, seen]
RECURSIVE validateContainersLoop(_, _, _)
validateContainersLoop(containers, i, st) ==
    IF i > Len(containers.content) THEN st
    ELSE validateContainersLoop(containers, i + 1,
            IF containers.content[i].kind # MappingNode
            THEN [rep |-> add(st.rep, containers.content[i].line, <<"container must be object">>),
                  seen |-> st.seen]
            ELSE validateContainer(containers.content[i], st.rep, st.seen))

validatePodSpec(n, r) ==
    LET r1 == validateOs(n, r)
        containers == getField(n, kContainers)
    IN  IF ~containers.ok THEN addRequiredNoLine(r1, <<"spec.containers">>)
        ELSE IF containers.node.kind # SequenceNode
             THEN add(r1, containers.node.line, <<"containers must be array">>)
        ELSE LET r2 == IF Len(containers.node.content) = 0
                       THEN add(r1, containers.node.line, <<"containers value out of range">>)
                       ELSE r1
             IN  validateContainersLoop(containers.node, 1, [rep |-> r2, seen |-> {}]).rep

\* ---- ObjectMeta ----
RECURSIVE validateLabelsLoop(_, _, _)
validateLabelsLoop(labels, i, r) ==
    IF i + 1 > Len(labels.content) THEN r
    ELSE LET k == labels.content[i]
             v == labels.content[i + 1]
             r1 == IF ~IsStr(k) THEN add(r, k.line, <<"labels key must be string">>) ELSE r
             r2 == IF ~IsStr(v) THEN add(r1, v.line, <<"labels value must be string">>) ELSE r1
         IN  validateLabelsLoop(labels, i + 2, r2)

validateObjectMeta(n, r) ==
    LET name == getField(n, kName)
        r1 == IF ~name.ok THEN addRequiredNoLine(r, <<"metadata.name">>)
              ELSE IF ~IsStr(name.node) THEN add(r, name.node.line, <<"name must be string">>)
              ELSE IF TrimSpace(name.node.value) = <<>>
                   THEN addRequiredAt(r, name.node.line, <<"name">>)
              ELSE r
        ns == getField(n, kNamespace)
        r2 == IF ns.ok /\ ~IsStr(ns.node)
              THEN add(r1, ns.node.line, <<"namespace must be string">>) ELSE r1
        labels == getField(n, kLabels)
    IN  IF ~labels.ok THEN r2
        ELSE IF labels.node.kind # MappingNode
             THEN add(r2, labels.node.line, <<"labels must be object">>)
        ELSE validateLabelsLoop(labels.node, 1, r2)

\* ---- Pod ----
validateApiVersion(doc, r) ==
    LET n == getField(doc, kApiVersion) IN
    IF ~n.ok THEN addRequiredNoLine(r, <<"apiVersion">>)
    ELSE IF ~IsStr(n.node) THEN add(r, n.node.line, <<"apiVersion must be string">>)
    ELSE IF n.node.value # sV1
         THEN add(r, n.node.line, <<"apiVersion has unsupported value '">> \o n.node.value \o <<"'">>)
    ELSE r

\* mutant of validateKind: the presence test looks up the wrong key
validateKind_wrongKey(doc, r) ==
    LET n == getField(doc, kKind) IN
    IF ~getField(doc, kMetadata).ok THEN addRequiredNoLine(r, <<"kind">>)
    ELSE IF ~n.ok THEN r
    ELSE IF ~IsStr(n.node) THEN add(r, n.node.line, <<"kind must be string">>)
    ELSE IF n.node.value # sPod
         THEN add(r, n.node.line, <<"kind has unsupported value '">> \o n.node.value \o <<"'">>)
    ELSE r

validateKind(doc, r) ==
    LET n == getField(doc, kKind) IN
    IF ~n.ok THEN addRequiredNoLine(r, <<"kind">>)
    ELSE IF ~IsStr(n.node) THEN add(r, n.node.line, <<"kind must be string">>)
    ELSE IF n.node.value # sPod
         THEN add(r, n.node.line, <<"kind has unsupported value '">> \o n.node.value \o <<"'">>)
    ELSE r

validateMetadata(doc, r) ==
    LET n == getField(doc, kMetadata) IN
    IF ~n.ok THEN addRequiredNoLine(r, <<"metadata">>)
    ELSE IF n.node.kind # MappingNode THEN add(r, n.node.line, <<"metadata must be object">>)
    ELSE validateObjectMeta(n.node, r)

\* mutant of validateSpec: spec is skipped once an earlier field has failed
validateSpec_shortCircuit(doc, r) ==
    LET n == getField(doc, kSpec) IN
    IF hasErrors(r) THEN r
    ELSE IF ~n.ok THEN addRequiredNoLine(r, <<"spec">>)
    ELSE IF n.node.kind # MappingNode THEN add(r, n.node.line, <<"spec must be object">>)
    ELSE validatePodSpec(n.node, r)

validateSpec(doc, r) ==
    LET n == getField(doc, kSpec) IN
    IF ~n.ok THEN addRequiredNoLine(r, <<"spec">>)
    ELSE IF n.node.kind # MappingNode THEN add(r, n.node.line, <<"spec must be object">>)
    ELSE validatePodSpec(n.node, r)

validatePod(doc, r) ==
    validateSpec(doc, validateMetadata(doc, validateKind(doc, validateApiVersion(doc, r))))

(***************************************************************************)
(* Input documents.  The parser is outside the program; the trees below    *)
(* are what it hands over: every node carries a line >= 1, a block          *)
(* mapping's line is the line of its first key.  b is the line offset of   *)
(* the document inside the source, c the first line of a container.        *)
(***************************************************************************)
tApp == <<"a", "p", "p">>
tWeb == <<"w", "e", "b">>
tDb == <<"d", "b">>
tBad == <<"B", "a", "d">>
tImageOk == imagePrefix \o <<"a", "p", "p", ":", "1", ".", "0">>
tNoTag == imagePrefix \o <<"a", "p", "p">>
tNginx == <<"n", "g", "i", "n", "x">>
t512Mi == <<"5", "1", "2", "M", "i">>
t512MB == <<"5", "1", "2", "M", "B">>
t8080 == <<"8", "0", "8", "0">>
t65535 == <<"6", "5", "5", "3", "5">>
t65536 == <<"6", "5", "5", "3", "6">>
tAbc == <<"a", "b", "c">>
tHealth == <<"/", "h", "e", "a", "l", "t", "h">>
tRel == <<"h", "e", "a", "l", "t", "h">>
tV2 == <<"v", "2">>
tJob == <<"J", "o", "b">>
tMac == <<"m", "a", "c", "o", "s">>
tSCTP == <<"S", "C", "T", "P">>
tProd == <<"p", "r", "o", "d">>
tTier == <<"t", "i", "e", "r">>

\* one key/value pair of a Mapping's Content
Frag(key, kline, node) == <<StrN(key, kline), node>>

EmptyRes(l) == Frag(kResources, l, MapN(l, <<>>))
ImageOk(l) == Frag(kImage, l, StrN(tImageOk, l))

\* ports items
PortItem(l, cpFrag, prFrag) == MapN(l, cpFrag \o prFrag)

PortTexts == {<<"0">>, <<"1">>, t8080, t65535, t65536, tAbc, <<"-", "1">>, <<"+", "8", "0">>,
              <<" ", "8", "0", " ">>, <<>>, <<"0", "x", "5", "0">>, <<"1", "_", "0">>}

PortValueNodes(l) ==
    {Scalar(tag, t, l) : tag \in {"!!str", "!!int", "!!bool"}, t \in PortTexts}
        \cup {MapN(l, <<>>), SeqN(l, <<>>)}

ProtocolFrags(l) ==
    {<<>>} \cup {Frag(kProtocol, l, n) :
                    n \in {StrN(sTCP, l), StrN(sUDP, l), StrN(tSCTP, l),
                           StrN(<<"t", "c", "p">>, l), IntN(<<"6">>, l)}}

\* every ports item of the validateContainerPort specification
PortItems ==
    {PortItem(1, cp, pr) :
        cp \in {<<>>} \cup {Frag(kContainerPort, 1, n) : n \in PortValueNodes(1)},
        pr \in ProtocolFrags(2)}

\* probes
HttpGet(l, pathFrag, portFrag) == MapN(l, pathFrag \o portFrag)

ProbeNodes(l) ==
    {StrN(tAbc, l), MapN(l, <<>>),
     MapN(l + 1, Frag(kHttpGet, l + 1, StrN(tAbc, l + 1))),
     MapN(l + 1, Frag(kHttpGet, l + 1, MapN(l + 1, <<>>))),
     MapN(l + 1, Frag(kHttpGet, l + 1,
        HttpGet(l + 2, Frag(kPath, l + 2, StrN(tRel, l + 2)), Frag(kPort, l + 3, IntN(<<"0">>, l + 3))))),
     MapN(l + 1, Frag(kHttpGet, l + 1,
        HttpGet(l + 2, Frag(kPath, l + 2, IntN(<<"1">>, l + 2)), Frag(kPort, l + 3, StrN(tAbc, l + 3))))),
     MapN(l + 1, Frag(kHttpGet, l + 1,
        HttpGet(l + 2, Frag(kPath, l + 2, StrN(tHealth, l + 2)), Frag(kPort, l + 3, IntN(t8080, l + 3)))))}

\* resources
ResNodes(l) ==
    {MapN(l, <<>>), StrN(tAbc, l),
     MapN(l + 1, Frag(kLimits, l + 1, StrN(tAbc, l + 1))),
     MapN(l + 1, Frag(kLimits, l + 1,
                      MapN(l + 2, Frag(kCpu, l + 2, StrN(<<"x">>, l + 2))
                                  \o Frag(kMemory, l + 3, StrN(t512MB, l + 3))))
                 \o Frag(kRequests, l + 4,
                      MapN(l + 5, Frag(kCpu, l + 5, StrN(<<"-", "1">>, l + 5))
                                  \o Frag(kMemory, l + 6, IntN(<<"5">>, l + 6))
                                  \o <<IntN(<<"7">>, l + 7), StrN(tAbc, l + 7)>>
                                  \o Frag(tTier, l + 8, SeqN(l + 8, <<>>))))),
     MapN(l + 1, Frag(kLimits, l + 1,
                      MapN(l + 2, Frag(kCpu, l + 2, IntN(<<"2">>, l + 2))
                                  \o Frag(kMemory, l + 3, StrN(t512Mi, l + 3)))))}

\* containers
Container(c, nameFrag, imgFrag, extra, resFrag) == MapN(c, nameFrag \o imgFrag \o extra \o resFrag)

NameNodes(l) ==
    {StrN(tWeb, l), StrN(tDb, l), StrN(tBad, l), StrN(<<>>, l), StrN(<<" ">>, l),
     IntN(<<"5">>, l), StrN(sDuplicate, l)}

NameFrags(l) == {<<>>} \cup {Frag(kName, l, n) : n \in NameNodes(l)}

MinimalContainer(c) == Container(c, Frag(kName, c, StrN(tWeb, c)), ImageOk(c + 1), <<>>, EmptyRes(c + 2))

ContainerSamples(c) ==
    {MinimalContainer(c), MapN(c, <<>>),
     Container(c, Frag(kName, c, StrN(tBad, c)), Frag(kImage, c + 1, StrN(tNginx, c + 1)), <<>>, <<>>),
     Container(c, Frag(kName, c, StrN(<<>>, c)), Frag(kImage, c + 1, IntN(<<"1">>, c + 1)), <<>>,
               EmptyRes(c + 2)),
     Container(c, Frag(kName, c, StrN(tWeb, c)), Frag(kImage, c + 1, StrN(tNoTag, c + 1)),
               Frag(kPorts, c + 2, StrN(tAbc, c + 2)), EmptyRes(c + 3)),
     Container(c, Frag(kName, c, StrN(tWeb, c)), ImageOk(c + 1),
               Frag(kPorts, c + 2,
                    SeqN(c + 3, <<StrN(tAbc, c + 3),
                                  PortItem(c + 4, Frag(kContainerPort, c + 4, IntN(<<"0">>, c + 4)), <<>>),
                                  PortItem(c + 5, Frag(kContainerPort, c + 5, IntN(t8080, c + 5)),
                                           Frag(kProtocol, c + 6, StrN(sTCP, c + 6))),
                                  PortItem(c + 7, <<>>, Frag(kProtocol, c + 7, StrN(tSCTP, c + 7)))>>)),
               EmptyRes(c + 8))}
    \cup {Container(c, Frag(kName, c, StrN(tWeb, c)), ImageOk(c + 1),
                    Frag(kReadinessProbe, c + 2, p), EmptyRes(c + 9)) : p \in ProbeNodes(c + 2)}
    \cup {Container(c, Frag(kName, c, StrN(tWeb, c)), ImageOk(c + 1),
                    Frag(kLivenessProbe, c + 2, p), <<>>) : p \in ProbeNodes(c + 2)}
    \cup {Container(c, Frag(kName, c, StrN(tWeb, c)), ImageOk(c + 1), <<>>,
                    Frag(kResources, c + 2, rs)) : rs \in ResNodes(c + 2)}

\* top-level fields
ApiFrags(b) ==
    {<<>>} \cup {Frag(kApiVersion, b + 1, n) :
                    n \in {StrN(sV1, b + 1), StrN(tV2, b + 1), IntN(<<"1">>, b + 1), MapN(b + 1, <<>>)}}

KindFrags(b) ==
    {<<>>, Frag(kKind, b + 2, StrN(sPod, b + 2)), Frag(kKind, b + 2, StrN(tJob, b + 2)),
     Frag(kKind, b + 2, SeqN(b + 2, <<>>)),
     \* a repeated key: the first pair is the one looked up
     Frag(kKind, b + 2, StrN(sPod, b + 2)) \o Frag(kKind, b + 3, StrN(tJob, b + 3))}

MetaNodes(b) ==
    {StrN(tApp, b + 4), MapN(b + 4, <<>>),
     MapN(b + 5, Frag(kName, b + 5, StrN(tApp, b + 5))),
     MapN(b + 5, Frag(kName, b + 5, StrN(<<>>, b + 5))),
     MapN(b + 5, Frag(kName, b + 5, StrN(<<" ", "\t">>, b + 5))),
     MapN(b + 5, Frag(kName, b + 5, IntN(<<"5">>, b + 5))),
     MapN(b + 5, Frag(kName, b + 5, StrN(tApp, b + 5))
                 \o Frag(kNamespace, b + 6, IntN(<<"5">>, b + 6))
                 \o Frag(kLabels, b + 7, StrN(tAbc, b + 7))),
     MapN(b + 5, Frag(kNamespace, b + 5, StrN(tProd, b + 5))
                 \o Frag(kLabels, b + 6,
                         MapN(b + 7, Frag(tTier, b + 7, IntN(<<"1">>, b + 7))
                                     \o <<IntN(<<"2">>, b + 8), StrN(tAbc, b + 8)>>
                                     \o <<IntN(<<"3">>, b + 9), IntN(<<"4">>, b + 9)>>)))}

MetaFrags(b) == {<<>>} \cup {Frag(kMetadata, b + 4, n) : n \in MetaNodes(b)}

SpecWith(b, osFrag, containersFrag) == MapN(b + 11, osFrag \o containersFrag)

OsFrags(b) ==
    {<<>>} \cup {Frag(kOs, b + 11, n) :
                    n \in {StrN(sLinux, b + 11), StrN(tMac, b + 11), IntN(<<"1">>, b + 11),
                           SeqN(b + 11, <<>>), MapN(b + 11, <<>>),
                           MapN(b + 12, Frag(kName, b + 12, StrN(sWindows, b + 12))),
                           MapN(b + 12, Frag(kName, b + 12, StrN(tMac, b + 12))),
                           MapN(b + 12, Frag(kName, b + 12, IntN(<<"1">>, b + 12)))}}

OneContainer(b, cn) == Frag(kContainers, b + 13, SeqN(b + 14, <<cn>>))

SpecNodes(b) ==
    {StrN(tAbc, b + 10), MapN(b + 10, <<>>),
     SpecWith(b, <<>>, Frag(kContainers, b + 13, StrN(tAbc, b + 13))),
     SpecWith(b, <<>>, Frag(kContainers, b + 13, SeqN(b + 13, <<>>))),
     SpecWith(b, <<>>, Frag(kContainers, b + 13,
                             SeqN(b + 14, <<MinimalContainer(b + 14), MinimalContainer(b + 20)>>)))}
    \cup {SpecWith(b, o, OneContainer(b, MinimalContainer(b + 14))) : o \in OsFrags(b)}
    \cup {SpecWith(b, <<>>, OneContainer(b, cn)) : cn \in ContainerSamples(b + 14)}

SpecFrags(b) == {<<>>} \cup {Frag(kSpec, b + 10, n) : n \in SpecNodes(b)}

\* every root Mapping of the validatePod specification, in both key orders
PodDocs(b) ==
    {MapN(b + 1, a \o k \o m \o s) :
        a \in ApiFrags(b), k \in KindFrags(b), m \in MetaFrags(b), s \in SpecFrags(b)}
    \cup {MapN(b + 1, s \o m \o k \o a) :
        a \in ApiFrags(b), k \in KindFrags(b), m \in MetaFrags(b), s \in SpecFrags(b)}

MinimalDoc(b) ==
    MapN(b + 1, Frag(kApiVersion, b + 1, StrN(sV1, b + 1))
                \o Frag(kKind, b + 2, StrN(sPod, b + 2))
                \o Frag(kMetadata, b + 4, MapN(b + 5, Frag(kName, b + 5, StrN(tApp, b + 5))))
                \o Frag(kSpec, b + 10,
                        SpecWith(b, <<>>, OneContainer(b,
                            Container(b + 14, Frag(kName, b + 14, StrN(tWeb, b + 14)),
                                      ImageOk(b + 15), <<>>, EmptyRes(b + 16))))))

(***************************************************************************)
(* Bounds                                                                  *)
(***************************************************************************)
\* documents in one source
MaxDocs == 2
\* items in one containers sequence
MaxContainers == 3
\* pairs in one limits or requests mapping
MaxPairs == 2
\* characters in a scalar handed to asInt
MaxText == 3

(***************************************************************************)
(* State                                                                   *)
(***************************************************************************)
VARIABLES
    pc,     \* position of the running function
    argc,   \* len(os.Args)
    root,   \* root.Content: the top-level nodes of the parsed source
    i,      \* loop index (documents in main, items in validatePodSpec)
    rep,    \* the reporter
    exit,   \* exit status of the process, -1 while it runs
    out,    \* lines written to stdout
    arg,    \* the node handed to the function under study
    ret,    \* the result of asInt
    seen,   \* seenNames of the running validatePodSpec
    docIndex \* index of main's loop over root.Content while a document is walked step by step

vars == <<pc, argc, root, i, rep, exit, out, arg, ret, seen, docIndex>>

FileNames == {"pod.yaml", "a.yml"}
NoRet == [val |-> 0, line |-> 0, err |-> FALSE]

(***************************************************************************)
(* main                                                                    *)
(***************************************************************************)
\* documents a source is made of; b is the line offset of the document
DocSampleSeq(b) ==
    <<MinimalDoc(b),
      StrN(tAbc, b + 1),
      MapN(b + 1, <<>>),
      MapN(b + 1, Frag(kApiVersion, b + 1, StrN(tV2, b + 1))
                  \o Frag(kKind, b + 2, StrN(sPod, b + 2))
                  \o Frag(kMetadata, b + 4, MapN(b + 5, Frag(kName, b + 5, StrN(<<>>, b + 5))))
                  \o Frag(kSpec, b + 10, SpecWith(b, <<>>, Frag(kContainers, b + 13, SeqN(b + 13, <<>>))))),
      MapN(b + 1, Frag(kApiVersion, b + 1, StrN(sV1, b + 1))
                  \o Frag(kKind, b + 2, StrN(sPod, b + 2))
                  \o Frag(kMetadata, b + 4, MapN(b + 5, Frag(kName, b + 5, StrN(tApp, b + 5))))
                  \o Frag(kSpec, b + 10,
                          SpecWith(b, <<>>, Frag(kContainers, b + 13,
                              SeqN(b + 14, <<MinimalContainer(b + 14), MinimalContainer(b + 20),
                                             MapN(b + 26, <<>>), MapN(b + 27, <<>>)>>))))),
      SeqN(b + 1, <<StrN(tAbc, b + 1)>>)>>

Roots ==
    UNION {{[k \in 1..n |-> DocSampleSeq(100 * (k - 1))[ix[k]]] :
                ix \in [1..n -> 1..Len(DocSampleSeq(0))]} : n \in 0..MaxDocs}

validateDoc(doc, r) ==
    IF doc.kind # MappingNode THEN add(r, doc.line, <<"root must be object">>)
    ELSE validatePod(doc, r)

Exit(status) ==
    /\ exit' = status
    /\ pc' = "exited"

\* len(os.Args) != 2
MainArgs ==
    /\ pc = "start"
    /\ IF argc # 2 THEN Exit(2) ELSE pc' = "read" /\ exit' = exit
    /\ UNCHANGED <<argc, root, i, rep, out, arg, ret, seen, docIndex>>

\* os.ReadFile
MainRead ==
    /\ pc = "read"
    /\ \E readErr \in BOOLEAN :
          IF readErr THEN Exit(1) ELSE pc' = "parse" /\ exit' = exit
    /\ UNCHANGED <<argc, root, i, rep, out, arg, ret, seen, docIndex>>

\* yaml.Unmarshal, the empty-document test and the construction of the reporter
MainParse ==
    /\ pc = "parse"
    /\ \E parseErr \in BOOLEAN, content \in Roots, file \in FileNames :
          IF parseErr
          THEN Exit(1) /\ UNCHANGED <<root, i, rep>>
          ELSE /\ root' = content
               /\ IF Len(content) = 0
                  THEN Exit(1) /\ UNCHANGED <<i, rep>>
                  ELSE /\ rep' = NewReporter(file)
                       /\ i' = 1
                       /\ pc' = "loop"
                       /\ exit' = exit
    /\ UNCHANGED <<argc, out, arg, ret, seen, docIndex>>

\* one iteration of the loop over root.Content
MainLoop ==
    /\ pc = "loop"
    /\ i <= Len(root)
    /\ rep' = validateDoc(root[i], rep)
    /\ i' = i + 1
    /\ UNCHANGED <<pc, argc, root, exit, out, arg, ret, seen, docIndex>>

\* after the loop: flush and exit
MainExit ==
    /\ pc = "loop"
    /\ i > Len(root)
    /\ IF hasErrors(rep)
       THEN out' = flushToStdout(rep, out) /\ Exit(1)
       ELSE out' = out /\ Exit(0)
    /\ UNCHANGED <<argc, root, i, rep, arg, ret, seen, docIndex>>

Init ==
    /\ pc = "start"
    /\ argc \in 1..3
    /\ root = <<>>
    /\ i = 0
    /\ rep = NewReporter("")
    /\ exit = -1
    /\ out = <<>>
    /\ arg = NilNode
    /\ ret = NoRet
    /\ seen = {}
    /\ docIndex = 0

Next == MainArgs \/ MainRead \/ MainParse \/ MainLoop \/ MainExit

Spec == Init /\ [][Next]_vars

(***************************************************************************)
(* validatePod on one root Mapping                                         *)
(***************************************************************************)
InitPod ==
    /\ pc = "validatePod"
    /\ arg \in PodDocs(0)
    /\ rep = NewReporter("pod.yaml")
    /\ argc = 2 /\ root = <<>> /\ i = 0 /\ exit = -1 /\ out = <<>> /\ ret = NoRet /\ seen = {} /\ docIndex = 0

CallValidatePod ==
    /\ pc = "validatePod"
    /\ rep' = validatePod(arg, rep)
    /\ pc' = "return"
    /\ UNCHANGED <<argc, root, i, exit, out, arg, ret, seen, docIndex>>

NextPod == CallValidatePod

SpecPod == InitPod /\ [][NextPod]_vars

(***************************************************************************)
(* validatePod step by step: the top-level checks, the entry of            *)
(* validatePodSpec, then one container per step                            *)
(***************************************************************************)
NameNodeSeq(l) ==
    <<StrN(tWeb, l), StrN(tDb, l), StrN(tBad, l), StrN(<<>>, l), StrN(<<" ">>, l),
      IntN(<<"5">>, l), StrN(sDuplicate, l)>>

\* the items a containers sequence is drawn from: a non-Mapping item, a
\* container without name, and one container per name node
ItemSeq(c) ==
    <<StrN(tAbc, c), Container(c, <<>>, ImageOk(c + 1), <<>>, EmptyRes(c + 2))>>
    \o [j \in 1..Len(NameNodeSeq(c)) |->
            Container(c, Frag(kName, c, NameNodeSeq(c)[j]), ImageOk(c + 1), <<>>, EmptyRes(c + 2))]

ContainerSeqs ==
    UNION {{[k \in 1..n |-> ItemSeq(10 + 10 * k)[ix[k]]] :
                ix \in [1..n -> 1..Len(ItemSeq(0))]} : n \in 0..MaxContainers}

WalkSpecFrags ==
    {Frag(kSpec, 10, MapN(11, Frag(kContainers, 11, SeqN(12, cs)))) : cs \in ContainerSeqs}
        \cup {<<>>, Frag(kSpec, 10, StrN(tAbc, 10)), Frag(kSpec, 10, MapN(10, <<>>)),
              Frag(kSpec, 10, MapN(11, Frag(kContainers, 11, StrN(tAbc, 11))))}

WalkMetaFrags ==
    {Frag(kMetadata, 4, MapN(5, Frag(kName, 5, n))) :
        n \in {StrN(tApp, 5), StrN(<<>>, 5), StrN(<<" ", "\t">>, 5)}}

WalkDocs ==
    {MapN(1, Frag(kApiVersion, 1, StrN(sV1, 1)) \o Frag(kKind, 2, StrN(sPod, 2)) \o m \o s) :
        m \in WalkMetaFrags, s \in WalkSpecFrags}

InitWalk ==
    /\ pc = "validatePod"
    /\ arg \in WalkDocs
    /\ rep = NewReporter("pod.yaml")
    /\ argc = 2 /\ root = <<>> /\ i = 0 /\ exit = -1 /\ out = <<>> /\ ret = NoRet /\ seen = {} /\ docIndex = 0

\* validatePod up to the call of validatePodSpec
PodEnter ==
    /\ pc = "validatePod"
    /\ LET r3 == validateMetadata(arg, validateKind(arg, validateApiVersion(arg, rep)))
           n == getField(arg, kSpec)
       IN  IF ~n.ok THEN rep' = addRequiredNoLine(r3, <<"spec">>) /\ pc' = "return"
           ELSE IF n.node.kind # MappingNode
           THEN rep' = add(r3, n.node.line, <<"spec must be object">>) /\ pc' = "return"
           ELSE rep' = r3 /\ pc' = "validatePodSpec"
    /\ UNCHANGED <<argc, root, i, exit, out, arg, ret, seen, docIndex>>

SpecNode == getField(arg, kSpec).node

\* mutant of PodSpecEnter: the set of names is not created anew
PodSpecEnter_keepSeen ==
    /\ pc = "validatePodSpec"
    /\ LET r1 == validateOs(SpecNode, rep)
           containers == getField(SpecNode, kContainers)
       IN  IF ~containers.ok
           THEN rep' = addRequiredNoLine(r1, <<"spec.containers">>)
                /\ pc' = "return" /\ UNCHANGED <<i, seen>>
           ELSE IF containers.node.kind # SequenceNode
           THEN rep' = add(r1, containers.node.line, <<"containers must be array">>)
                /\ pc' = "return" /\ UNCHANGED <<i, seen>>
           ELSE /\ rep' = IF Len(containers.node.content) = 0
                          THEN add(r1, containers.node.line, <<"containers value out of range">>)
                          ELSE r1
                /\ seen' = seen
                /\ i' = 1
                /\ pc' = "containers"
    /\ UNCHANGED <<argc, root, exit, out, arg, ret, docIndex>>

\* validatePodSpec up to the creation of seenNames
PodSpecEnter ==
    /\ pc = "validatePodSpec"
    /\ LET r1 == validateOs(SpecNode, rep)
           containers == getField(SpecNode, kContainers)
       IN  IF ~containers.ok
           THEN rep' = addRequiredNoLine(r1, <<"spec.containers">>)
                /\ pc' = "return" /\ UNCHANGED <<i, seen>>
           ELSE IF containers.node.kind # SequenceNode
           THEN rep' = add(r1, containers.node.line, <<"containers must be array">>)
                /\ pc' = "return" /\ UNCHANGED <<i, seen>>
           ELSE /\ rep' = IF Len(containers.node.content) = 0
                          THEN add(r1, containers.node.line, <<"containers value out of range">>)
                          ELSE r1
                /\ seen' = {}
                /\ i' = 1
                /\ pc' = "containers"
    /\ UNCHANGED <<argc, root, exit, out, arg, ret, docIndex>>

Items == getField(SpecNode, kContainers).node.content

\* one iteration of the loop over containers.Content
ContainerStep ==
    /\ pc = "containers"
    /\ i <= Len(Items)
    /\ IF Items[i].kind # MappingNode
       THEN rep' = add(rep, Items[i].line, <<"container must be object">>) /\ seen' = seen
       ELSE /\ rep' = validateContainer(Items[i], rep, seen).rep
            /\ seen' = validateContainer(Items[i], rep, seen).seen
    /\ i' = i + 1
    /\ UNCHANGED <<pc, argc, root, exit, out, arg, ret, docIndex>>

PodSpecReturn ==
    /\ pc = "containers"
    /\ i > Len(Items)
    /\ pc' = "return"
    /\ UNCHANGED <<argc, root, i, rep, exit, out, arg, ret, seen, docIndex>>

NextWalk == PodEnter \/ PodSpecEnter \/ ContainerStep \/ PodSpecReturn

SpecWalk == InitWalk /\ [][NextWalk]_vars

(***************************************************************************)
(* validateContainerPort on one ports item                                 *)
(***************************************************************************)
InitPort ==
    /\ pc = "validateContainerPort"
    /\ arg \in PortItems
    /\ rep = NewReporter("pod.yaml")
    /\ argc = 2 /\ root = <<>> /\ i = 0 /\ exit = -1 /\ out = <<>> /\ ret = NoRet /\ seen = {} /\ docIndex = 0

CallValidateContainerPort ==
    /\ pc = "validateContainerPort"
    /\ rep' = validateContainerPort(arg, rep)
    /\ pc' = "return"
    /\ UNCHANGED <<argc, root, i, exit, out, arg, ret, seen, docIndex>>

NextPort == CallValidateContainerPort

SpecPort == InitPort /\ [][NextPort]_vars

(***************************************************************************)
(* asInt on one node                                                       *)
(***************************************************************************)
Alphabet == {"0", "7", "-", "+", " ", "x"}

Texts == UNION {[1..n -> Alphabet] : n \in 0..MaxText}

AsIntNodes ==
    {Scalar(tag, t, l) : tag \in {"!!str", "!!int", "!!bool", "!!float", "!!null"},
                         t \in Texts, l \in {1, 7}}
        \cup {MapN(3, <<>>), SeqN(4, <<IntN(<<"7">>, 4)>>),
              MapN(5, Frag(<<"7">>, 5, IntN(<<"7">>, 5)))}

InitAsInt ==
    /\ pc = "asInt"
    /\ arg \in AsIntNodes
    /\ rep = NewReporter("pod.yaml")
    /\ argc = 2 /\ root = <<>> /\ i = 0 /\ exit = -1 /\ out = <<>> /\ ret = NoRet /\ seen = {} /\ docIndex = 0

CallAsInt ==
    /\ pc = "asInt"
    /\ ret' = asInt(arg)
    /\ pc' = "return"
    /\ UNCHANGED <<argc, root, i, rep, exit, out, arg, seen, docIndex>>

NextAsInt == CallAsInt

SpecAsInt == InitAsInt /\ [][NextAsInt]_vars

(***************************************************************************)
(* validateContainer on one container with probes and resources             *)
(***************************************************************************)
\* containers named web with a valid image; the readinessProbe, the
\* livenessProbe and the resources are each absent or one of the sample nodes
ProbeContainers ==
    {Container(1, Frag(kName, 1, StrN(tWeb, 1)), ImageOk(2), rp \o lp, rs) :
        rp \in {<<>>} \cup {Frag(kReadinessProbe, 3, n) : n \in ProbeNodes(3)},
        lp \in {<<>>} \cup {Frag(kLivenessProbe, 7, n) : n \in ProbeNodes(7)},
        rs \in {<<>>} \cup {Frag(kResources, 11, n) : n \in ResNodes(11)}}

InitContainer ==
    /\ pc = "validateContainer"
    /\ arg \in ProbeContainers
    /\ rep = NewReporter("pod.yaml")
    /\ argc = 2 /\ root = <<>> /\ i = 0 /\ exit = -1 /\ out = <<>> /\ ret = NoRet /\ seen = {} /\ docIndex = 0

CallValidateContainer ==
    /\ pc = "validateContainer"
    /\ rep' = validateContainer(arg, rep, seen).rep
    /\ seen' = validateContainer(arg, rep, seen).seen
    /\ pc' = "return"
    /\ UNCHANGED <<argc, root, i, exit, out, arg, ret, docIndex>>

NextContainer == CallValidateContainer

SpecContainer == InitContainer /\ [][NextContainer]_vars

(***************************************************************************)
(* validateResources on a resources Mapping that holds limits or requests   *)
(***************************************************************************)
\* the pairs a limits / requests mapping is drawn from, key and value on line l
KVPairSeq(l) ==
    <<Frag(kCpu, l, StrN(<<"x">>, l)), Frag(kCpu, l, StrN(<<"-", "1">>, l)),
      Frag(kCpu, l, StrN(<<"0">>, l)), Frag(kCpu, l, StrN(<<" ", "3", " ">>, l)),
      Frag(kCpu, l, IntN(<<"2">>, l)), Frag(kCpu, l, IntN(<<"-", "1">>, l)),
      Frag(kCpu, l, Scalar("!!float", <<"1", ".", "5">>, l)), Frag(kCpu, l, MapN(l, <<>>)),
      Frag(kMemory, l, StrN(t512Mi, l)), Frag(kMemory, l, StrN(t512MB, l)),
      Frag(kMemory, l, IntN(<<"5">>, l)),
      Frag(tTier, l, StrN(<<"x">>, l)), Frag(tTier, l, IntN(<<"-", "1">>, l)),
      Frag(tTier, l, SeqN(l, <<>>)), Frag(tTier, l, MapN(l, <<>>)),
      <<IntN(<<"7">>, l), StrN(<<"x">>, l)>>,
      <<Scalar("!custom", kCpu, l), StrN(<<"x">>, l)>>,
      <<Scalar("!custom", kCpu, l), StrN(<<"-", "1">>, l)>>,
      <<MapN(l, <<>>), StrN(<<"x">>, l)>>>>

RECURSIVE Flatten(_)
Flatten(frags) == IF frags = <<>> THEN <<>> ELSE Head(frags) \o Flatten(Tail(frags))

KVMappings ==
    UNION {{MapN(11, Flatten([k \in 1..n |-> KVPairSeq(10 + k)[ix[k]]])) :
                ix \in [1..n -> 1..Len(KVPairSeq(0))]} : n \in 0..MaxPairs}

ResourcesNodes ==
    {MapN(10, Frag(key, 10, kv)) :
        key \in {kLimits, kRequests}, kv \in KVMappings \cup {StrN(tAbc, 10)}}

InitResources ==
    /\ pc = "validateResources"
    /\ arg \in ResourcesNodes
    /\ rep = NewReporter("pod.yaml")
    /\ argc = 2 /\ root = <<>> /\ i = 0 /\ exit = -1 /\ out = <<>> /\ ret = NoRet /\ seen = {} /\ docIndex = 0

CallValidateResources ==
    /\ pc = "validateResources"
    /\ rep' = validateResources(arg, rep)
    /\ pc' = "return"
    /\ UNCHANGED <<argc, root, i, exit, out, arg, ret, seen, docIndex>>

NextResources == CallValidateResources

SpecResources == InitResources /\ [][NextResources]_vars

(***************************************************************************)
(* main's loop over the documents of a source, each document walked step   *)
(* by step as in SpecWalk                                                  *)
(***************************************************************************)
NamedContainer(c, name) ==
    Container(c, Frag(kName, c, StrN(name, c)), ImageOk(c + 1), <<>>, EmptyRes(c + 2))

\* containers sequences of the documents of a source; b is the line offset
MultiContainerSeq(b) ==
    <<<<NamedContainer(b + 20, tWeb)>>,
      <<NamedContainer(b + 20, tWeb), NamedContainer(b + 30, tWeb)>>,
      <<NamedContainer(b + 20, tWeb), StrN(tAbc, b + 30), NamedContainer(b + 40, tWeb)>>,
      <<NamedContainer(b + 20, tDb), NamedContainer(b + 30, tWeb)>>,
      <<NamedContainer(b + 20, tWeb), NamedContainer(b + 30, tBad), NamedContainer(b + 40, tBad)>>>>

MultiDoc(b, api, cs) ==
    MapN(b + 1, Frag(kApiVersion, b + 1, StrN(api, b + 1))
                \o Frag(kKind, b + 2, StrN(sPod, b + 2))
                \o Frag(kMetadata, b + 4, MapN(b + 5, Frag(kName, b + 5, StrN(tApp, b + 5))))
                \o Frag(kSpec, b + 10, MapN(b + 11, Frag(kContainers, b + 11, SeqN(b + 12, cs)))))

MultiDocSeq(b) ==
    [j \in 1..Len(MultiContainerSeq(b)) |-> MultiDoc(b, sV1, MultiContainerSeq(b)[j])]
    \o [j \in 1..Len(MultiContainerSeq(b)) |-> MultiDoc(b, tV2, MultiContainerSeq(b)[j])]
    \o <<StrN(tAbc, b + 1),
          MapN(b + 1, Frag(kApiVersion, b + 1, StrN(sV1, b + 1))
                      \o Frag(kKind, b + 2, StrN(sPod, b + 2))
                      \o Frag(kMetadata, b + 4, MapN(b + 5, Frag(kName, b + 5, StrN(tApp, b + 5))))
                      \o Frag(kSpec, b + 10, MapN(b + 10, <<>>))),
          MapN(b + 1, Frag(kApiVersion, b + 1, StrN(sV1, b + 1))
                      \o Frag(kKind, b + 2, StrN(sPod, b + 2))
                      \o Frag(kMetadata, b + 4, MapN(b + 5, Frag(kName, b + 5, StrN(tApp, b + 5)))))>>

MultiRoots ==
    UNION {{[k \in 1..n |-> MultiDocSeq(100 * (k - 1))[ix[k]]] :
                ix \in [1..n -> 1..Len(MultiDocSeq(0))]} : n \in 1..MaxDocs}

InitMulti ==
    /\ pc = "loop"
    /\ root \in MultiRoots
    /\ docIndex = 1
    /\ rep = NewReporter("pod.yaml")
    /\ arg = NilNode
    /\ argc = 2 /\ i = 0 /\ exit = -1 /\ out = <<>> /\ ret = NoRet /\ seen = {}

\* one iteration of main's loop up to the call of validatePod
DocEnter ==
    /\ pc = "loop"
    /\ docIndex <= Len(root)
    /\ IF root[docIndex].kind # MappingNode
       THEN /\ rep' = add(rep, root[docIndex].line, <<"root must be object">>)
            /\ docIndex' = docIndex + 1
            /\ UNCHANGED <<pc, arg>>
       ELSE /\ arg' = root[docIndex]
            /\ pc' = "validatePod"
            /\ UNCHANGED <<rep, docIndex>>
    /\ UNCHANGED <<argc, root, i, exit, out, ret, seen>>

\* validatePod has returned: the next document
DocReturn ==
    /\ pc = "return"
    /\ docIndex' = docIndex + 1
    /\ pc' = "loop"
    /\ UNCHANGED <<argc, root, i, rep, exit, out, arg, ret, seen>>

NextMulti == DocEnter \/ PodEnter \/ PodSpecEnter \/ ContainerStep \/ PodSpecReturn \/ DocReturn

SpecMulti == InitMulti /\ [][NextMulti]_vars

(***************************************************************************)
(* Properties                                                              *)
(***************************************************************************)
\* the mapping has a pair whose key is the scalar key
HasKey(node, key) ==
    /\ node.kind = MappingNode
    /\ \E j \in 1..Len(node.content) :
          j % 2 = 1 /\ node.content[j].kind = ScalarNode /\ node.content[j].value = key

Required(name) == <<name, " is required">>

\* diagnostics of errs with the given line and message
At(errs, line, msg) == {j \in 1..Len(errs) : errs[j].line = line /\ errs[j].msg = msg}

WithMsg(errs, msg) == {j \in 1..Len(errs) : errs[j].msg = msg}

TopFields ==
    {[key |-> kApiVersion, name |-> "apiVersion"], [key |-> kKind, name |-> "kind"],
     [key |-> kMetadata, name |-> "metadata"], [key |-> kSpec, name |-> "spec"]}

\* C1: for a root Mapping and each of apiVersion, kind, metadata, spec: when
\* no pair of the root has that key, validatePod appends exactly one
\* "<field> is required" diagnostic, with line 0, whatever the rest of the
\* document holds; when the key is there, it appends none.
C1_RequiredTopLevel ==
    pc = "return" =>
        \A f \in TopFields :
            IF HasKey(arg, f.key)
            THEN WithMsg(rep.errs, Required(f.name)) = {}
            ELSE /\ Cardinality(WithMsg(rep.errs, Required(f.name))) = 1
                 /\ \A j \in WithMsg(rep.errs, Required(f.name)) : rep.errs[j].line = 0

\* kind is missing while apiVersion and the spec subtree are wrong as well
C1_Witness ==
    /\ pc = "return"
    /\ ~HasKey(arg, kKind)
    /\ HasKey(arg, kApiVersion) /\ HasKey(arg, kSpec)
    /\ Len(rep.errs) >= 4
    /\ Cardinality(WithMsg(rep.errs, Required("kind"))) = 1

RECURSIVE OnlyFrom(_, _, _)
OnlyFrom(content, key, j) ==
    IF j + 1 > Len(content) THEN <<>>
    ELSE (IF content[j].kind = ScalarNode /\ content[j].value = key
          THEN <<content[j], content[j + 1]>> ELSE <<>>) \o OnlyFrom(content, key, j + 2)

\* the document reduced to the pairs of one key
Only(doc, key) == MapN(doc.line, OnlyFrom(doc.content, key, 1))

NotOthersRequired(e, f) ==
    ~(e.line = 0 /\ e.msg \in {Required(g.name) : g \in TopFields \ {f}})

\* the diagnostics of one top-level field: those of the document that holds
\* nothing but this field, less the "is required" of the three others
Part(doc, f) ==
    SelectSeq(validatePod(Only(doc, f.key), NewReporter(rep.file)).errs,
              LAMBDA e : NotOthersRequired(e, f))

FieldOf(key) == CHOOSE f \in TopFields : f.key = key

\* C8: the diagnostics of a root Mapping are those of apiVersion, of kind, of
\* metadata and of spec, in this order, and each of the four parts depends on
\* nothing but the field's own pairs: it is what the document reduced to that
\* field yields.
C8_TopLevelIndependent ==
    pc = "return" =>
        rep.errs = Part(arg, FieldOf(kApiVersion)) \o Part(arg, FieldOf(kKind))
                   \o Part(arg, FieldOf(kMetadata)) \o Part(arg, FieldOf(kSpec))

\* all four fields are there, in the order spec, metadata, kind, apiVersion,
\* and each of them yields a diagnostic
C8_Witness ==
    /\ pc = "return"
    /\ \A f \in TopFields : HasKey(arg, f.key) /\ Len(Part(arg, f)) > 0
    /\ arg.content[1].value = kSpec

RECURSIVE Lines(_)
Lines(n) == {n.line} \cup UNION {Lines(n.content[k]) : k \in 1..Len(n.content)}

Child(n, key) == getField(n, key).node

\* the Mapping items of a Sequence node (none for any other node)
MapItems(n) ==
    IF n.kind # SequenceNode THEN {}
    ELSE {n.content[k] : k \in {j \in 1..Len(n.content) : n.content[j].kind = MappingNode}}

ContainersOf(doc) == MapItems(Child(Child(doc, kSpec), kContainers))

ProbesOf(doc, key) == {Child(cn, key) : cn \in ContainersOf(doc)}

\* every "is required" message of the schema with the key it stands for and
\* the nodes the key is looked up in
RequiredPaths(doc) ==
    {[msg |-> Required(f.name), key |-> f.key, parents |-> {doc}] : f \in TopFields}
    \cup {[msg |-> Required("metadata.name"), key |-> kName, parents |-> {Child(doc, kMetadata)}],
          [msg |-> Required("spec.containers"), key |-> kContainers, parents |-> {Child(doc, kSpec)}],
          [msg |-> Required("spec.os.name"), key |-> kName,
           parents |-> {Child(Child(doc, kSpec), kOs)}],
          [msg |-> Required("containers.name"), key |-> kName, parents |-> ContainersOf(doc)],
          [msg |-> Required("containers.image"), key |-> kImage, parents |-> ContainersOf(doc)],
          [msg |-> Required("containers.resources"), key |-> kResources,
           parents |-> ContainersOf(doc)],
          [msg |-> Required("ports.containerPort"), key |-> kContainerPort,
           parents |-> UNION {MapItems(Child(cn, kPorts)) : cn \in ContainersOf(doc)}]}
    \cup UNION {{[msg |-> <<p.name, ".httpGet", " is required">>, key |-> kHttpGet,
                  parents |-> ProbesOf(doc, p.key)],
                 [msg |-> <<p.name, ".httpGet.path", " is required">>, key |-> kPath,
                  parents |-> {Child(n, kHttpGet) : n \in ProbesOf(doc, p.key)}],
                 [msg |-> <<p.name, ".httpGet.port", " is required">>, key |-> kPort,
                  parents |-> {Child(n, kHttpGet) : n \in ProbesOf(doc, p.key)}]} :
                p \in {[name |-> "readinessProbe", key |-> kReadinessProbe],
                       [name |-> "livenessProbe", key |-> kLivenessProbe]}}

\* C6: with every node on a line >= 1, a diagnostic has line 0 only if its
\* message is "<path> is required" for a field of the schema that is absent
\* from the Mapping it is looked up in; every other diagnostic carries the
\* positive line of a node of the document.
C6_NoLineIffAbsent ==
    pc = "return" =>
        \A j \in 1..Len(rep.errs) :
            IF rep.errs[j].line = 0
            THEN \E p \in RequiredPaths(arg) :
                    /\ rep.errs[j].msg = p.msg
                    /\ \E m \in p.parents : m.kind = MappingNode /\ ~HasKey(m, p.key)
            ELSE rep.errs[j].line > 0 /\ rep.errs[j].line \in Lines(arg)

\* an empty metadata.name, which is there, is reported on its line, while a
\* missing field of the same document is reported without line
C6_Witness ==
    /\ pc = "return"
    /\ \E j \in 1..Len(rep.errs) : rep.errs[j].msg = Required("name") /\ rep.errs[j].line > 0
    /\ \E j \in 1..Len(rep.errs) : rep.errs[j].line = 0


\* the containers sequence of the walk, empty when there is none
WalkItems ==
    IF Child(Child(arg, kSpec), kContainers).kind = SequenceNode
    THEN Child(Child(arg, kSpec), kContainers).content ELSE <<>>

\* the items the loop has been through
Walked == IF pc \in {"containers", "return"} THEN 1..(i - 1) ELSE {}

DuplicateMsg ==
    <<"name has invalid format '", "d", "u", "p", "l", "i", "c", "a", "t", "e", "'">>

\* item k is a Mapping whose name is a string scalar of the snake_case pattern
ValidName(k) ==
    /\ HasKey(WalkItems[k], kName)
    /\ IsStr(Child(WalkItems[k], kName))
    /\ reSnake(Child(WalkItems[k], kName).value)

SameName(j, k) == Child(WalkItems[j], kName).value = Child(WalkItems[k], kName).value

\* C2 (as amended): among the Mapping items of one containers sequence whose
\* name is a string scalar matching the snake_case pattern, the first item
\* with a given name gets no "name has invalid format 'duplicate'" diagnostic
\* and every later item with that name gets exactly one, on the line of its
\* own name node.
C2_DuplicateNames ==
    \A k \in Walked :
        ValidName(k) =>
            Cardinality(At(rep.errs, Child(WalkItems[k], kName).line, DuplicateMsg))
                = IF \E j \in 1..(k - 1) : ValidName(j) /\ SameName(j, k) THEN 1 ELSE 0

\* three containers named web: the second and the third are reported
C2_Witness ==
    /\ pc = "return"
    /\ Len(WalkItems) = 3
    /\ \A k \in 1..3 : ValidName(k) /\ SameName(1, k)
    /\ Cardinality(WithMsg(rep.errs, DuplicateMsg)) = 2
    /\ At(rep.errs, Child(WalkItems[1], kName).line, DuplicateMsg) = {}

\* C2 as stated: any two Mapping items whose name fields carry the same value
C2_Original ==
    \A k \in Walked :
        HasKey(WalkItems[k], kName) =>
            Cardinality(At(rep.errs, Child(WalkItems[k], kName).line, DuplicateMsg))
                = IF \E j \in 1..(k - 1) : HasKey(WalkItems[j], kName) /\ SameName(j, k)
                  THEN 1 ELSE 0

\* a string scalar that trims to the empty string
EmptyName(n) == IsStr(n) /\ \A j \in 1..Len(n.value) : n.value[j] \in Space

\* the diagnostics on the node's line are one "name is required" and nothing else
OnlyNameRequired(n) ==
    /\ n.line > 0
    /\ Cardinality({j \in 1..Len(rep.errs) : rep.errs[j].line = n.line}) = 1
    /\ \A j \in 1..Len(rep.errs) :
          rep.errs[j].line = n.line => rep.errs[j].msg = Required("name")

\* C9: a metadata.name or container name that is a string scalar trimming to
\* the empty string gets exactly one diagnostic, "name is required", on the
\* node's own positive line; it gets no format or duplicate diagnostic, and a
\* container name of this kind is not put into the seen set.
C9_EmptyName ==
    /\ (pc # "validatePod" /\ EmptyName(Child(Child(arg, kMetadata), kName)))
            => OnlyNameRequired(Child(Child(arg, kMetadata), kName))
    /\ \A k \in Walked :
            (HasKey(WalkItems[k], kName) /\ EmptyName(Child(WalkItems[k], kName)))
                => /\ OnlyNameRequired(Child(WalkItems[k], kName))
                   /\ Child(WalkItems[k], kName).value \notin seen

\* an empty metadata.name and two containers with the same empty name
C9_Witness ==
    /\ pc = "return"
    /\ EmptyName(Child(Child(arg, kMetadata), kName))
    /\ Len(WalkItems) = 2
    /\ \A k \in 1..2 : HasKey(WalkItems[k], kName) /\ EmptyName(Child(WalkItems[k], kName))
    /\ SameName(1, 2)
    /\ Len(rep.errs) = 3
    /\ seen = {}


\* C3: the minimal valid document (apiVersion v1, kind Pod, metadata.name app,
\* one container web with image registry.bigbrother.io/app:1.0 and
\* resources {}) leaves the reporter empty: hasErrors is false, nothing is
\* printed and the process exits with status 0.
C3_MinimalDocumentClean ==
    (root = <<MinimalDoc(0)>> /\ pc \in {"loop", "exited"} /\ i > 1) =>
        /\ rep.errs = <<>>
        /\ ~hasErrors(rep)
        /\ pc = "exited" => (exit = 0 /\ out = <<>>)

C3_Witness ==
    /\ root = <<MinimalDoc(0)>>
    /\ pc = "exited"
    /\ i = 2
    /\ exit = 0

\* C5: a run that reaches validation exits 0 exactly when the reporter is
\* empty after the last document and 1 exactly when it holds a diagnostic; a
\* run that fails to read or parse, or parses nothing, exits 1 with an empty
\* reporter; a wrong argument count exits 2, and nothing else does.
C5_ExitStatus ==
    pc = "exited" =>
        /\ (exit = 2) <=> (argc # 2)
        /\ exit \in {0, 1, 2}
        /\ root # <<>> =>
              /\ i = Len(root) + 1
              /\ (exit = 0) <=> (Len(rep.errs) = 0)
              /\ (exit = 1) <=> (Len(rep.errs) >= 1)
        /\ (argc = 2 /\ root = <<>>) => (exit = 1 /\ rep.errs = <<>> /\ out = <<>>)

\* a valid first document, and a second one with a single diagnostic
C5_Witness ==
    /\ pc = "exited"
    /\ Len(root) = 2
    /\ root[1] = MinimalDoc(0)
    /\ Len(rep.errs) = 1
    /\ exit = 1

\* the diagnostics of one document, collected by a reporter of its own
Fresh(d) == validateDoc(d, NewReporter(rep.file)).errs

RECURSIVE ConcatFresh(_)
ConcatFresh(k) == IF k = 0 THEN <<>> ELSE ConcatFresh(k - 1) \o Fresh(root[k])

PrintedLine(e) ==
    IF e.line > 0 THEN <<e.file, ":">> \o Itoa(e.line) \o <<" ">> \o e.msg \o <<"\n">>
    ELSE <<e.file, ": ">> \o e.msg \o <<"\n">>

\* C7: the reporter's list is the diagnostics of the documents validated so
\* far, document after document, each in the order of its own walk; nothing is
\* dropped, reordered or merged, equal diagnostics stay apart.  flush prints
\* one line per diagnostic in this order, "<file>:<line> <message>" for a
\* line > 0 and "<file>: <message>" otherwise.
C7_AppendOnlyLog ==
    /\ (pc = "loop" \/ (pc = "exited" /\ root # <<>>)) => rep.errs = ConcatFresh(i - 1)
    /\ (pc = "exited" /\ root # <<>> /\ rep.errs # <<>>) =>
          /\ Len(out) = Len(rep.errs)
          /\ \A j \in 1..Len(out) : out[j] = PrintedLine(rep.errs[j])

\* two documents with diagnostics, two equal diagnostics among them, and a
\* printed line with a three-digit line number
C7_Witness ==
    /\ pc = "exited"
    /\ Len(root) = 2
    /\ Fresh(root[1]) # <<>> /\ Fresh(root[2]) # <<>>
    /\ \E j, k \in 1..Len(rep.errs) : j < k /\ rep.errs[j] = rep.errs[k] /\ out[j] = out[k]
    /\ <<rep.file, ":", "1", "2", "0", " ", "name has invalid format '",
         "d", "u", "p", "l", "i", "c", "a", "t", "e", "'", "\n">> \in {out[j] : j \in 1..Len(out)}
    /\ <<rep.file, ": ", "containers.image", " is required", "\n">> \in {out[j] : j \in 1..Len(out)}

ProtocolPieces == {"protocol must be string", "protocol has unsupported value '"}

\* the diagnostics of a ports item other than those of its protocol field
PortDiagnostics == SelectSeq(rep.errs, LAMBDA e : e.msg[1] \notin ProtocolPieces)

PortDiag(text) == <<[file |-> rep.file, line |-> Child(arg, kContainerPort).line, msg |-> <<text>>]>>

Coercible(n) == n.kind = ScalarNode /\ n.tag \in {"!!int", "!!str"}

\* C4: for a ports item with a containerPort field, the field gets
\* "containerPort must be int" when the coercion fails (as for abc),
\* "containerPort value out of range" when the integer is below 1 or above
\* 65535 (as for 0 and 65536), and nothing when it lies in 1..65535 (as for 1,
\* 8080 and 65535); the diagnostic is on the line of the containerPort node.
C4_ContainerPortRange ==
    (pc = "return" /\ HasKey(arg, kContainerPort)) =>
        /\ PortDiagnostics =
              IF asInt(Child(arg, kContainerPort)).err THEN PortDiag("containerPort must be int")
              ELSE IF asInt(Child(arg, kContainerPort)).val < 1
                      \/ asInt(Child(arg, kContainerPort)).val > 65535
                   THEN PortDiag("containerPort value out of range")
              ELSE <<>>
        /\ Child(arg, kContainerPort) = StrN(tAbc, 1)
              => PortDiagnostics = PortDiag("containerPort must be int")
        /\ (Coercible(Child(arg, kContainerPort))
                /\ Child(arg, kContainerPort).value \in {<<"0">>, t65536})
              => PortDiagnostics = PortDiag("containerPort value out of range")
        /\ (Coercible(Child(arg, kContainerPort))
                /\ Child(arg, kContainerPort).value \in {<<"1">>, t8080, t65535})
              => PortDiagnostics = <<>>

\* containerPort: 65535 passes while the protocol of the same item is reported
C4_Witness ==
    /\ pc = "return"
    /\ Child(arg, kContainerPort) = IntN(t65535, 1)
    /\ PortDiagnostics = <<>>
    /\ Len(rep.errs) = 1

\* the text between the first and the last character that is not white space
Trimmed(s) ==
    LET ns == {j \in 1..Len(s) : s[j] \notin Space}
    IN  IF ns = {} THEN <<>>
        ELSE SubSeq(s, CHOOSE j \in ns : \A k \in ns : j <= k,
                       CHOOSE j \in ns : \A k \in ns : j >= k)

OnlyDigits(s) == s # <<>> /\ \A j \in 1..Len(s) : s[j] \in Digit

\* a base-10 integer literal: an optional sign, then one or more digits
DecimalLiteral(s) ==
    \/ OnlyDigits(s)
    \/ s # <<>> /\ s[1] \in {"+", "-"} /\ OnlyDigits(SubSeq(s, 2, Len(s)))

\* C10 (as amended): asInt succeeds exactly for a Scalar tagged !!int whose
\* text is a base-10 integer literal (an optional sign, then digits), and for
\* a Scalar tagged !!str whose white-space-trimmed text is one; it fails for
\* every other node.  Either way it returns the line of the node.
C10_ScalarCoercion ==
    pc = "return" =>
        /\ (~ret.err) <=>
              /\ arg.kind = ScalarNode
              /\ \/ arg.tag = "!!int" /\ DecimalLiteral(arg.value)
                 \/ arg.tag = "!!str" /\ DecimalLiteral(Trimmed(arg.value))
        /\ ret.line = arg.line

\* the string " -7" is coerced to -7
C10_Witness ==
    /\ pc = "return"
    /\ arg = StrN(<<" ", "-", "7">>, 7)
    /\ ~ret.err
    /\ ret.val = -7
    /\ ret.line = 7

\* C10 as stated: every !!int scalar, and every !!str scalar whose trimmed text
\* holds digits only
C10_Original ==
    pc = "return" =>
        /\ (~ret.err) <=>
              /\ arg.kind = ScalarNode
              /\ \/ arg.tag = "!!int"
                 \/ arg.tag = "!!str" /\ OnlyDigits(Trimmed(arg.value))
        /\ ret.line = arg.line

Probes ==
    {[name |-> "readinessProbe", key |-> kReadinessProbe],
     [name |-> "livenessProbe", key |-> kLivenessProbe]}

\* the diagnostic belongs to the probe: it is on a line of the probe's subtree,
\* or it has no line and its message starts with the probe's name
OfProbe(e, p) ==
    \/ e.line > 0 /\ e.line \in Lines(Child(arg, p.key))
    \/ e.line = 0 /\ e.msg[1] = p.name

ProbeDiagnostics(p) == SelectSeq(rep.errs, LAMBDA e : OfProbe(e, p))

OfResources(e) ==
    \/ e.line > 0 /\ e.line \in Lines(Child(arg, kResources))
    \/ e.msg = Required("containers.resources")

ResourcesDiagnostics == SelectSeq(rep.errs, LAMBDA e : OfResources(e))

AboutPathOrPort(e) ==
    \/ e.msg[1] \in {"path must be string", "path has invalid format '", "port must be int",
                     "port value out of range"}
    \/ Len(e.msg) >= 2 /\ e.msg[2] \in {".httpGet.path", ".httpGet.port"}

\* the probe is there and validateProbe cannot descend into its httpGet
DeadEnd(p) ==
    /\ HasKey(arg, p.key)
    /\ \/ Child(arg, p.key).kind # MappingNode
       \/ ~HasKey(Child(arg, p.key), kHttpGet)
       \/ Child(Child(arg, p.key), kHttpGet).kind # MappingNode

\* the one diagnostic of a probe validateProbe cannot descend into
DeadEndDiagnostic(p) ==
    IF Child(arg, p.key).kind # MappingNode
    THEN [file |-> rep.file, line |-> Child(arg, p.key).line, msg |-> <<p.name, " must be object">>]
    ELSE IF ~HasKey(Child(arg, p.key), kHttpGet)
    THEN [file |-> rep.file, line |-> 0, msg |-> <<p.name, ".httpGet", " is required">>]
    ELSE [file |-> rep.file, line |-> Child(Child(arg, p.key), kHttpGet).line,
          msg |-> <<"httpGet must be object">>]

\* what a sibling field of the container yields when it is validated alone
AloneProbe(q) ==
    IF HasKey(arg, q.key)
    THEN validateProbe(Child(arg, q.key), NewReporter(rep.file), q.name).errs ELSE <<>>

AloneResources ==
    IF HasKey(arg, kResources)
    THEN validateResources(Child(arg, kResources), NewReporter(rep.file)).errs
    ELSE addRequiredNoLine(NewReporter(rep.file), <<"containers.resources">>).errs

\* C11: a probe that is not a Mapping, or has no httpGet, or whose httpGet is
\* not a Mapping, gets exactly one diagnostic ("<prefix> must be object",
\* "<prefix>.httpGet is required" without line, "httpGet must be object") and
\* none about path or port; the other probe and resources of the container
\* are checked all the same, with the diagnostics they yield on their own.
C11_ProbeDeadEnd ==
    pc = "return" =>
        \A p \in Probes :
            DeadEnd(p) =>
                /\ ProbeDiagnostics(p) = <<DeadEndDiagnostic(p)>>
                /\ \A j \in 1..Len(rep.errs) :
                      OfProbe(rep.errs[j], p) => ~AboutPathOrPort(rep.errs[j])
                /\ \A q \in Probes \ {p} : ProbeDiagnostics(q) = AloneProbe(q)
                /\ ResourcesDiagnostics = AloneResources

\* the readinessProbe has a scalar httpGet, the livenessProbe is reported for
\* its path and its port, and the resources are reported too
C11_Witness ==
    /\ pc = "return"
    /\ HasKey(Child(arg, kReadinessProbe), kHttpGet)
    /\ Child(Child(arg, kReadinessProbe), kHttpGet).kind = ScalarNode
    /\ Len(ProbeDiagnostics([name |-> "readinessProbe", key |-> kReadinessProbe])) = 1
    /\ Len(ProbeDiagnostics([name |-> "livenessProbe", key |-> kLivenessProbe])) = 2
    /\ Len(ResourcesDiagnostics) >= 2

\* the limits or requests node of the resources Mapping, and its prefix
KVNode == IF HasKey(arg, kLimits) THEN Child(arg, kLimits) ELSE Child(arg, kRequests)

KVPrefix == IF HasKey(arg, kLimits) THEN "resources.limits" ELSE "resources.requests"

KVPairs == IF KVNode.kind = MappingNode THEN 1..(Len(KVNode.content) \div 2) ELSE {}

KVKey(j) == KVNode.content[2 * j - 1]

KVValue(j) == KVNode.content[2 * j]

\* the diagnostics on the line of pair j
PairDiagnostics(j) == SelectSeq(rep.errs, LAMBDA e : e.line = KVKey(j).line)

\* the text Scalar Coercion parses, the empty text for a node it refuses
CoercedText(v) ==
    IF v.kind = ScalarNode /\ v.tag = "!!int" THEN v.value
    ELSE IF v.kind = ScalarNode /\ v.tag = "!!str" THEN Trimmed(v.value)
    ELSE <<>>

NegativeLiteral(s) == s[1] = "-" /\ \E j \in 2..Len(s) : s[j] \in Digit \ {"0"}

KVDiag(line, msg) == <<[file |-> rep.file, line |-> line, msg |-> msg]>>

\* C12: in a limits or requests Mapping, a pair with the string key cpu gets
\* "cpu must be int" when the coercion of its value fails (as for x), "cpu
\* value out of range" when the integer is below 0 (as for -1), and nothing
\* when it is 0 or more; a pair with any other string key than cpu and memory
\* gets nothing, whatever its value; a pair whose key is no string scalar gets
\* "key must be string" and nothing else; no diagnostic is without line, so a
\* missing cpu or memory is never reported.
C12_ResourceKV ==
    pc = "return" =>
        /\ \A j \in 1..Len(rep.errs) : rep.errs[j].line > 0
        /\ \A j \in KVPairs :
              /\ (IsStr(KVKey(j)) /\ KVKey(j).value = kCpu) =>
                    PairDiagnostics(j) =
                        IF ~DecimalLiteral(CoercedText(KVValue(j)))
                        THEN KVDiag(KVValue(j).line, <<"cpu must be int">>)
                        ELSE IF NegativeLiteral(CoercedText(KVValue(j)))
                        THEN KVDiag(KVValue(j).line, <<"cpu value out of range">>)
                        ELSE <<>>
              /\ (IsStr(KVKey(j)) /\ KVKey(j).value \notin {kCpu, kMemory}) =>
                    PairDiagnostics(j) = <<>>
              /\ ~IsStr(KVKey(j)) =>
                    PairDiagnostics(j) = KVDiag(KVKey(j).line, <<KVPrefix, " key must be string">>)
        /\ (\A j \in KVPairs : IsStr(KVKey(j)) /\ KVKey(j).value \notin {kCpu, kMemory})
              => (KVNode.kind = MappingNode => rep.errs = <<>>)

\* cpu: "-1" is out of range, and the pair of the same mapping whose key reads
\* cpu without being a string is reported for its key alone
C12_Witness ==
    /\ pc = "return"
    /\ KVPairs = {1, 2}
    /\ KVKey(1) = StrN(kCpu, 11) /\ KVValue(1) = StrN(<<"-", "1">>, 11)
    /\ ~IsStr(KVKey(2)) /\ KVKey(2).value = kCpu /\ KVValue(2) = StrN(<<"-", "1">>, 12)
    /\ rep.errs = KVDiag(11, <<"cpu value out of range">>)
                   \o KVDiag(12, <<KVPrefix, " key must be string">>)

\* the items of the containers sequence of a document, none when it has none
ItemsOf(dn) ==
    IF Child(Child(dn, kSpec), kContainers).kind = SequenceNode
    THEN Child(Child(dn, kSpec), kContainers).content ELSE <<>>

\* a Mapping item whose name is a string scalar of the snake_case pattern
NamedValid(it) == HasKey(it, kName) /\ IsStr(Child(it, kName)) /\ reSnake(Child(it, kName).value)

NameOf(it) == Child(it, kName).value

\* the names of the first n items of a containers sequence
NamesOf(items, n) == {NameOf(items[k]) : k \in {j \in 1..n : j <= Len(items) /\ NamedValid(items[j])}}

\* the items of document d that validatePodSpec has been through
WalkedOf(d) ==
    IF d < docIndex THEN 1..Len(ItemsOf(root[d]))
    ELSE IF d = docIndex /\ pc \in {"containers", "return"}
    THEN {k \in 1..Len(ItemsOf(root[d])) : k < i}
    ELSE {}

\* item k of document d repeats the name of an earlier item of the same document
RepeatsInDoc(d, k) ==
    /\ NamedValid(ItemsOf(root[d])[k])
    /\ \E j \in 1..(k - 1) :
          /\ NamedValid(ItemsOf(root[d])[j])
          /\ NameOf(ItemsOf(root[d])[j]) = NameOf(ItemsOf(root[d])[k])

SeenNamesScoped ==
    /\ pc = "containers" => seen = NamesOf(ItemsOf(root[docIndex]), i - 1)
    /\ \A d \in 1..Len(root) : \A k \in WalkedOf(d) :
          ItemsOf(root[d])[k].kind = MappingNode =>
              Cardinality(At(rep.errs, Child(ItemsOf(root[d])[k], kName).line, DuplicateMsg))
                  = IF RepeatsInDoc(d, k) THEN 1 ELSE 0
    /\ Cardinality(WithMsg(rep.errs, DuplicateMsg))
          = Cardinality({dk \in (1..Len(root)) \X (1..(MaxContainers + 1)) :
                            dk[2] \in WalkedOf(dk[1]) /\ RepeatsInDoc(dk[1], dk[2])})
    /\ pc = "loop" => rep.errs = ConcatFresh(docIndex - 1)

SeenNamesGrow == (pc = "containers" /\ pc' = "containers") => seen \subseteq seen'

\* C13: the set of container names belongs to one validatePodSpec call: at
\* every point of the loop over a containers sequence it holds exactly the
\* valid names of the items of this sequence walked so far (so it starts empty
\* whatever earlier documents held, and non-Mapping items leave it alone), and
\* it only grows during the loop; a "duplicate" diagnostic is given to an item
\* exactly when an earlier item of the same document has its name, never for
\* a name of another document; and after each document the reporter holds the
\* diagnostics of all documents so far, those of each as when validated alone.
C13_SeenNamesPerCall == [](SeenNamesScoped) /\ [][SeenNamesGrow]_vars

\* two documents, each with two containers named web: one duplicate per
\* document, none for the first web of the second document
C13_Witness ==
    /\ pc = "loop"
    /\ Len(root) = 2
    /\ docIndex = 3
    /\ \A d \in 1..2 :
          /\ Len(ItemsOf(root[d])) = 2
          /\ \A k \in 1..2 : NamedValid(ItemsOf(root[d])[k]) /\ NameOf(ItemsOf(root[d])[k]) = tWeb
    /\ At(rep.errs, 120, DuplicateMsg) = {}
    /\ Cardinality(At(rep.errs, 30, DuplicateMsg)) = 1
    /\ Cardinality(At(rep.errs, 130, DuplicateMsg)) = 1
    /\ \E j \in 1..Len(rep.errs) : rep.errs[j].line = 1
    /\ \E j \in 1..Len(rep.errs) : rep.errs[j].line = 101

====
